---- MODULE Spec2Model ----
(***************************************************************************)
(* Model of the ICO enforcement scraper / Twitter bot (scraper.py).        *)
(*                                                                         *)
(* Spec        the run pipeline: main, scrape_enforcements, get_untweeted, *)
(*             tweet_untweeted, over a persistent table, for several runs. *)
(* SpecReplace the pure function replace on short texts.                   *)
(* SpecTweet   the pure function Tweeter.make_tweet.                       *)
(* SpecSummary the pure function ICOPenaltyScraper._abbreviate_description.*)
(***************************************************************************)
EXTENDS Integers, Sequences, FiniteSets, TLC

VARIABLES
    \* ---- the pipeline ----
    store,           \* the 'data' table: url -> row
    today,           \* datetime.date.today(), as (year, month, day)
    run,             \* number of runs of main started so far
    pc,              \* position of the current run of main: "idle", "scrape",
                     \* "select", "next", "tweet", "done" (main ended by itself),
                     \* "aborted" (an exception nothing caught ended the run)
    pages,           \* scraper.penalty_pages of the current run
    idx,             \* index of the next page to scrape (1-based)
    queue,           \* rows of table.find(...) not yet consumed by get_untweeted
    cur,             \* the row yielded by get_untweeted, being tweeted
    failed_tweets,   \* tweet_untweeted's counter
    exit_status,     \* the exit status of the run, -1 while running
    posts,           \* history: url -> number of successful post calls, ever
    attempts,        \* history: urls handed to the publisher in this run, in order
    failedAttempts,  \* history: urls whose publish attempt failed in this run
    batch,           \* history: urls unsent and not stale when the selection ran
    committed,       \* history: main's db.commit() after the listing pass ran
    resent,          \* history: a sent url was re-upserted with other field values
    \* ---- the pure text functions ----
    tpc,             \* which function has been applied
    text,            \* input text / description
    names,           \* replace_names
    alias,           \* with_text
    url,             \* url argument of make_tweet
    out,             \* result of the function
    out2             \* result of applying the function to its own result

pipeVars == <<store, today, run, pc, pages, idx, queue, cur, failed_tweets,
              exit_status, posts, attempts, failedAttempts, batch, committed,
              resent>>
textVars == <<tpc, text, names, alias, url, out, out2>>
vars == <<pipeVars, textVars>>

-----------------------------------------------------------------------------
(* Bounds of the model.                                                    *)

MaxRuns == 2
MaxPages == 2

-----------------------------------------------------------------------------
(* Dates.  The table holds ISO strings 'YYYY-MM-DD' (zero padded, so that  *)
(* the table's ORDER BY compares them field by field); parse_date turns    *)
(* them into datetime.date, which compares and subtracts by day count.     *)

NULL == <<>>

IsoDates == {<<2017, 12, 26>>, <<2017, 12, 27>>, <<2018, 1, 9>>}
PageDates == IsoDates \cup {NULL}
Todays == {<<2018, 1, 10>>, <<2018, 1, 11>>}

IsLeap(y) == (y % 4 = 0) /\ ((y % 100 # 0) \/ (y % 400 = 0))

DaysInMonth(y, m) ==
    IF m = 2 THEN (IF IsLeap(y) THEN 29 ELSE 28)
    ELSE IF m \in {4, 6, 9, 11} THEN 30 ELSE 31

RECURSIVE DaysBeforeMonth(_, _)
DaysBeforeMonth(y, m) ==
    IF m = 1 THEN 0 ELSE DaysBeforeMonth(y, m - 1) + DaysInMonth(y, m - 1)

DaysBeforeYear(y) ==
    LET p == y - 1 IN p * 365 + (p \div 4) - (p \div 100) + (p \div 400)

\* datetime.date(y, m, d), as its proleptic Gregorian day number
parse_date(iso) == DaysBeforeYear(iso[1]) + DaysBeforeMonth(iso[1], iso[2]) + iso[3]

WindowDays == 14

two_weeks_ago(t) == parse_date(t) - WindowDays

\* ORDER BY date ASC on the stored strings; NULL sorts first
IsoLeq(a, b) ==
    \/ a = NULL
    \/ /\ b # NULL
       /\ \/ a[1] < b[1]
          \/ a[1] = b[1] /\ a[2] < b[2]
          \/ a[1] = b[1] /\ a[2] = b[2] /\ a[3] <= b[3]

-----------------------------------------------------------------------------
(* The table.                                                              *)

Urls == {"u1", "u2"}
NoTitle == "None"
Titles == {NoTitle, "Acme Ltd"}

NoRow == [present |-> FALSE, tweet_sent |-> FALSE, date |-> NULL, title |-> NoTitle]

\* table.find_one(url=row['url'], tweet_sent=True) is not None
AlreadySent(u) == store[u].present /\ store[u].tweet_sent

\* (variant: the fresh row always starts unsent)
ScrapedRowUnsent(u, d, t) ==
    [present |-> TRUE, tweet_sent |-> FALSE, date |-> d, title |-> t]

\* scrape_enforcements: the row upserted for a freshly extracted page
ScrapedRow(u, d, t) ==
    [present |-> TRUE, tweet_sent |-> AlreadySent(u), date |-> d, title |-> t]

\* table.find(tweet_sent=False)
Unsent == {u \in Urls : store[u].present /\ ~store[u].tweet_sent}

SeqsOver(S) == UNION {[1..n -> S] : n \in 0..Cardinality(S)}

\* (variant: the query without order_by)
IsUnordered(q) == TRUE

\* order_by='date'
IsOrdered(q) ==
    \A i \in 1..Len(q) : \A j \in 1..Len(q) :
        i < j => IsoLeq(store[q[i]].date, store[q[j]].date)

IsListing(q, S) ==
    /\ Len(q) = Cardinality(S)
    /\ {q[i] : i \in 1..Len(q)} = S

\* table.find(tweet_sent=False, order_by='date'): the unsent rows, by date;
\* rows of equal date in any order
FindUnsentByDate == {q \in SeqsOver(Urls) : IsListing(q, Unsent) /\ IsOrdered(q)}

\* (variant: the window one day too long)
IsRecentOrDayOlder(d, t) == parse_date(d) >= two_weeks_ago(t) - 1

\* get_untweeted's filter
IsRecent(d, t) == parse_date(d) >= two_weeks_ago(t)

\* get_untweeted's loop up to its next yield: "yield", "stop" (the rows are
\* exhausted) or "raise" (parse_date of a NULL date)
RECURSIVE Advance(_)
Advance(q) ==
    IF q = <<>> THEN [kind |-> "stop", rest |-> <<>>]
    ELSE IF store[Head(q)].date = NULL THEN [kind |-> "raise", rest |-> q]
    ELSE IF IsRecent(store[Head(q)].date, today) THEN [kind |-> "yield", rest |-> q]
    ELSE Advance(Tail(q))

\* (variant: a single failure is not reported)
ExitStatusAboveOne(n) == IF n > 1 THEN 1 ELSE 0

\* main: 'if failed_tweets: sys.exit(1)'
ExitStatus(n) == IF n # 0 THEN 1 ELSE 0

\* an exception nothing catches ends the interpreter with status 1
UncaughtExit == 1

-----------------------------------------------------------------------------
(* The pipeline.                                                           *)

PipeInit ==
    /\ store = [u \in Urls |-> NoRow]
    /\ today \in Todays
    /\ run = 0
    /\ pc = "idle"
    /\ pages = <<>>
    /\ idx = 1
    /\ queue = <<>>
    /\ cur = "none"
    /\ failed_tweets = 0
    /\ exit_status = -1
    /\ posts = [u \in Urls |-> 0]
    /\ attempts = <<>>
    /\ failedAttempts = {}
    /\ batch = {}
    /\ committed = FALSE
    /\ resent = FALSE

TextIdle ==
    /\ tpc = "unused"
    /\ text = <<>>
    /\ names = <<>>
    /\ alias = <<>>
    /\ url = <<>>
    /\ out = <<>>
    /\ out2 = <<>>

Listings == UNION {[1..n -> Urls] : n \in 0..MaxPages}

\* main starts (a later run on a later or the same day); parse_list_page
\* fetches the listing and keeps its links
StartRun ==
    /\ pc \in {"idle", "done", "aborted"}
    /\ run < MaxRuns
    /\ \E t \in Todays : \E l \in Listings :
        /\ IsoLeq(today, t)
        /\ today' = t
        /\ pages' = l
    /\ run' = run + 1
    /\ pc' = "scrape"
    /\ idx' = 1
    /\ queue' = <<>>
    /\ cur' = "none"
    /\ failed_tweets' = 0
    /\ exit_status' = -1
    /\ attempts' = <<>>
    /\ failedAttempts' = {}
    /\ batch' = {}
    /\ committed' = FALSE
    /\ UNCHANGED <<store, posts, resent>>
    /\ UNCHANGED textVars

\* parse_list_page: the fetch of the listing fails
ListingFails ==
    /\ pc \in {"idle", "done", "aborted"}
    /\ run < MaxRuns
    /\ run' = run + 1
    /\ pc' = "aborted"
    /\ exit_status' = UncaughtExit
    /\ pages' = <<>>
    /\ idx' = 1
    /\ queue' = <<>>
    /\ cur' = "none"
    /\ failed_tweets' = 0
    /\ attempts' = <<>>
    /\ failedAttempts' = {}
    /\ batch' = {}
    /\ committed' = FALSE
    /\ UNCHANGED <<store, today, posts, resent>>
    /\ UNCHANGED textVars

\* one turn of scrape_enforcements' loop: the page is extracted and upserted
ScrapePage ==
    /\ pc = "scrape"
    /\ idx <= Len(pages)
    /\ \E d \in PageDates : \E t \in Titles :
        LET u == pages[idx] IN
        /\ store' = [store EXCEPT ![u] = ScrapedRow(u, d, t)]
        /\ resent' = (resent \/ (AlreadySent(u) /\ <<d, t>> # <<store[u].date, store[u].title>>))
    /\ idx' = idx + 1
    /\ UNCHANGED <<today, run, pc, pages, queue, cur, failed_tweets, exit_status,
                   posts, attempts, failedAttempts, batch, committed>>
    /\ UNCHANGED textVars

\* one turn of scrape_enforcements' loop: the page's extraction raises (fetch
\* error, several PDF links, no description); nothing catches it
ScrapePageFails ==
    /\ pc = "scrape"
    /\ idx <= Len(pages)
    /\ pc' = "aborted"
    /\ exit_status' = UncaughtExit
    /\ UNCHANGED <<store, today, run, pages, idx, queue, cur, failed_tweets,
                   posts, attempts, failedAttempts, batch, committed, resent>>
    /\ UNCHANGED textVars

\* (variant: the loop over the pages ends one page early)
ListingDoneEarly == idx >= Len(pages)

\* scrape_enforcements' loop over scraper.run() is exhausted
ListingDone == idx > Len(pages)

\* main: scrape_enforcements returned; db.commit()
CommitListing ==
    /\ pc = "scrape"
    /\ ListingDone
    /\ committed' = TRUE
    /\ pc' = "select"
    /\ UNCHANGED <<store, today, run, pages, idx, queue, cur, failed_tweets,
                   exit_status, posts, attempts, failedAttempts, batch, resent>>
    /\ UNCHANGED textVars

\* get_untweeted starts: the query runs
Select ==
    /\ pc = "select"
    /\ \E q \in FindUnsentByDate : queue' = q
    /\ batch' = {u \in Unsent : store[u].date = NULL \/ IsRecent(store[u].date, today)}
    /\ pc' = "next"
    /\ UNCHANGED <<store, today, run, pages, idx, cur, failed_tweets, exit_status,
                   posts, attempts, failedAttempts, committed, resent>>
    /\ UNCHANGED textVars

\* get_untweeted yields its next row to tweet_untweeted's loop
NextRecordYield ==
    /\ pc = "next"
    /\ Advance(queue).kind = "yield"
    /\ cur' = Head(Advance(queue).rest)
    /\ queue' = Tail(Advance(queue).rest)
    /\ pc' = "tweet"
    /\ UNCHANGED <<store, today, run, pages, idx, failed_tweets, exit_status,
                   posts, attempts, failedAttempts, batch, committed, resent>>
    /\ UNCHANGED textVars

\* get_untweeted raises on a row without a date; nothing catches it
NextRecordRaise ==
    /\ pc = "next"
    /\ Advance(queue).kind = "raise"
    /\ failedAttempts' = failedAttempts \cup {Head(Advance(queue).rest)}
    /\ queue' = Advance(queue).rest
    /\ pc' = "aborted"
    /\ exit_status' = UncaughtExit
    /\ UNCHANGED <<store, today, run, pages, idx, cur, failed_tweets,
                   posts, attempts, batch, committed, resent>>
    /\ UNCHANGED textVars

\* get_untweeted is exhausted: tweet_untweeted returns failed_tweets and main
\* exits
NextRecordStop ==
    /\ pc = "next"
    /\ Advance(queue).kind = "stop"
    /\ queue' = <<>>
    /\ pc' = "done"
    /\ exit_status' = ExitStatus(failed_tweets)
    /\ UNCHANGED <<store, today, run, pages, idx, cur, failed_tweets,
                   posts, attempts, failedAttempts, batch, committed, resent>>
    /\ UNCHANGED textVars

\* Tweeter.tweet raises: always when the row has no title (ImageCreator takes
\* len(None)), otherwise when rendering or the post call fails
CanPost(u) == store[u].title # NoTitle

\* 'except Exception': counted, rolled back, next row
TweetFails ==
    /\ pc = "tweet"
    /\ attempts' = Append(attempts, cur)
    /\ failedAttempts' = failedAttempts \cup {cur}
    /\ failed_tweets' = failed_tweets + 1
    /\ pc' = "next"
    /\ cur' = "none"
    /\ UNCHANGED <<store, today, run, pages, idx, queue, exit_status, posts,
                   batch, committed, resent>>
    /\ UNCHANGED textVars

\* 'else': the post call returned; the row is upserted with tweet_sent = True
\* and committed (its other columns are written back as they were read)
TweetSent ==
    /\ pc = "tweet"
    /\ CanPost(cur)
    /\ attempts' = Append(attempts, cur)
    /\ posts' = [posts EXCEPT ![cur] = @ + 1]
    /\ store' = [store EXCEPT ![cur].tweet_sent = TRUE]
    /\ pc' = "next"
    /\ cur' = "none"
    /\ UNCHANGED <<today, run, pages, idx, queue, failed_tweets, exit_status,
                   failedAttempts, batch, committed, resent>>
    /\ UNCHANGED textVars

\* 'else': the post call returned, then table.upsert or db.commit raises (or
\* the process is stopped): the open transaction is lost, nothing catches it
TweetSentNotRecorded ==
    /\ pc = "tweet"
    /\ CanPost(cur)
    /\ attempts' = Append(attempts, cur)
    /\ posts' = [posts EXCEPT ![cur] = @ + 1]
    /\ failedAttempts' = failedAttempts \cup {cur}
    /\ pc' = "aborted"
    /\ exit_status' = UncaughtExit
    /\ cur' = "none"
    /\ UNCHANGED <<store, today, run, pages, idx, queue, failed_tweets,
                   batch, committed, resent>>
    /\ UNCHANGED textVars

Next ==
    \/ StartRun
    \/ ListingFails
    \/ ScrapePage
    \/ ScrapePageFails
    \/ CommitListing
    \/ Select
    \/ NextRecordYield
    \/ NextRecordRaise
    \/ NextRecordStop
    \/ TweetFails
    \/ TweetSent
    \/ TweetSentNotRecorded

Init == PipeInit /\ TextIdle

Spec == Init /\ [][Next]_vars

-----------------------------------------------------------------------------
(* Text.  A Python str is the sequence of its characters, a character a    *)
(* one-character string; the two characters outside ASCII are named.       *)
(* Positions are counted from 0, as in the code.                           *)

\* U+2019, the apostrophe of the ICO's pages
RSQUO == "RSQUO"
\* U+2026, the character make_tweet appends to a cut description
ELLIPSIS == "ELLIPSIS"

MinOf(S) == CHOOSE m \in S : \A k \in S : m <= k
MaxOf(S) == CHOOSE m \in S : \A k \in S : m >= k

\* s[i:j]
Slice(s, i, j) == SubSeq(s, i + 1, j)

\* sub occurs in s at position i
MatchAt(s, sub, i) ==
    /\ i >= 0
    /\ i + Len(sub) <= Len(s)
    /\ \A k \in 1..Len(sub) : s[i + k] = sub[k]

\* s.find(sub, start, end)
Find(s, sub, start, end) ==
    LET e == IF end < Len(s) THEN end ELSE Len(s)
        at == {i \in start..(e - Len(sub)) : MatchAt(s, sub, i)}
    IN  IF at = {} THEN -1 ELSE MinOf(at)

\* sub in s
Contains(s, sub) == Find(s, sub, 0, Len(s)) # -1

\* s.replace(old, new) for a non-empty old: every occurrence, found from
\* left to right, each search starting after the previous occurrence
RECURSIVE StrReplaceFrom(_, _, _, _)
StrReplaceFrom(s, old, new, start) ==
    LET j == Find(s, old, start, Len(s))
    IN  IF j = -1 THEN Slice(s, start, Len(s))
        ELSE Slice(s, start, j) \o new \o StrReplaceFrom(s, old, new, j + Len(old))

StrReplace(s, old, new) == StrReplaceFrom(s, old, new, 0)

\* (variant: the loop goes on after the first name that matched)
RECURSIVE replaceEveryName(_, _, _)
replaceEveryName(long_text, replace_names, with_text) ==
    IF replace_names = <<>> THEN long_text
    ELSE replaceEveryName(StrReplace(long_text, Head(replace_names), with_text),
                          Tail(replace_names), with_text)

\* replace(long_text, replace_names, with_text)
RECURSIVE replace(_, _, _)
replace(long_text, replace_names, with_text) ==
    IF replace_names = <<>> THEN long_text
    ELSE LET new == StrReplace(long_text, Head(replace_names), with_text)
         IN  IF new # long_text THEN new
             ELSE replace(long_text, Tail(replace_names), with_text)
\* ICO_NAMES
ICO_NAME_1 ==
    <<"T", "h", "e", " ", "I", "n", "f", "o", "r", "m", "a", "t", "i", "o",
      "n", " ", "C", "o", "m", "m", "i", "s", "s", "i", "o", "n", "e", "r",
      RSQUO, "s", " ", "O", "f", "f", "i", "c", "e", " ", "(", "I", "C", "O",
      ")">>
ICO_NAME_2 ==
    <<"T", "h", "e", " ", "I", "n", "f", "o", "r", "m", "a", "t", "i", "o",
      "n", " ", "C", "o", "m", "m", "i", "s", "s", "i", "o", "n", "e", "r",
      RSQUO, "s", " ", "O", "f", "f", "i", "c", "e">>
ICO_NAME_3 ==
    <<"t", "h", "e", " ", "I", "n", "f", "o", "r", "m", "a", "t", "i", "o",
      "n", " ", "C", "o", "m", "m", "i", "s", "s", "i", "o", "n", "e", "r",
      RSQUO, "s", " ", "O", "f", "f", "i", "c", "e", " ", "(", "I", "C", "O",
      ")">>
ICO_NAME_4 ==
    <<"t", "h", "e", " ", "I", "n", "f", "o", "r", "m", "a", "t", "i", "o",
      "n", " ", "C", "o", "m", "m", "i", "s", "s", "i", "o", "n", "e", "r",
      RSQUO, "s", " ", "O", "f", "f", "i", "c", "e">>
ICO_NAME_5 ==
    <<"t", "h", "e", " ", "I", "n", "f", "o", "r", "m", "a", "t", "i", "o",
      "n", " ", "C", "o", "m", "m", "i", "s", "s", "i", "o", "n", "e", "r">>
ICO_NAME_6 ==
    <<"t", "h", "e", " ", "i", "c", "o">>
ICO_NAME_7 ==
    <<"t", "h", "e", " ", "I", "C", "O">>
ICO_NAMES ==
    <<ICO_NAME_1, ICO_NAME_2, ICO_NAME_3, ICO_NAME_4, ICO_NAME_5, ICO_NAME_6,
      ICO_NAME_7>>
\* make_tweet's alias
AT_ICONEWS ==
    <<"@", "I", "C", "O", "n", "e", "w", "s">>
\* _abbreviate_description's alias of the ICO names
THE_ICO ==
    <<"t", "h", "e", " ", "I", "C", "O">>
TPS_NAME_1 ==
    <<"T", "e", "l", "e", "p", "h", "o", "n", "e", " ", "P", "r", "e", "f",
      "e", "r", "e", "n", "c", "e", " ", "S", "e", "r", "v", "i", "c", "e",
      " ", "(", "T", "P", "S", ")">>
TPS_NAME_2 ==
    <<"T", "e", "l", "e", "p", "h", "o", "n", "e", " ", "P", "r", "e", "f",
      "e", "r", "e", "n", "c", "e", " ", "S", "e", "r", "v", "i", "c", "e">>
TPS_NAMES == <<TPS_NAME_1, TPS_NAME_2>>
TPS ==
    <<"T", "P", "S">>
PECR_NAME ==
    <<"P", "r", "i", "v", "a", "c", "y", " ", "a", "n", "d", " ", "E", "l",
      "e", "c", "t", "r", "o", "n", "i", "c", " ", "C", "o", "m", "m", "u",
      "n", "i", "c", "a", "t", "i", "o", "n", "s", " ", "(", "E", "C", " ",
      "D", "i", "r", "e", "c", "t", "i", "v", "e", ")", " ", "R", "e", "g",
      "u", "l", "a", "t", "i", "o", "n", "s", " ", "2", "0", "0", "3">>
PECR_NAMES == <<PECR_NAME>>
PECR ==
    <<"P", "E", "C", "R">>
\* _drop_initial_cruft's phrases and their replacements
HAS_BEEN_FINED ==
    <<"h", "a", "s", " ", "b", "e", "e", "n", " ", "f", "i", "n", "e", "d">>
FINED ==
    <<"f", "i", "n", "e", "d">>
HAS_BEEN_PROSECUTED ==
    <<"h", "a", "s", " ", "b", "e", "e", "n", " ", "p", "r", "o", "s", "e",
      "c", "u", "t", "e", "d">>
PROSECUTED ==
    <<"p", "r", "o", "s", "e", "c", "u", "t", "e", "d">>
Phrases == <<<<HAS_BEEN_FINED, FINED>>, <<HAS_BEEN_PROSECUTED, PROSECUTED>>>>
LowerCase ==
    <<"a", "b", "c", "d", "e", "f", "g", "h", "i", "j", "k", "l", "m", "n",
      "o", "p", "q", "r", "s", "t", "u", "v", "w", "x", "y", "z">>
UpperCase ==
    <<"A", "B", "C", "D", "E", "F", "G", "H", "I", "J", "K", "L", "M", "N",
      "O", "P", "Q", "R", "S", "T", "U", "V", "W", "X", "Y", "Z">>

\* c.upper() for the characters of the model
Upper(c) ==
    IF \E i \in 1..Len(LowerCase) : LowerCase[i] = c
    THEN UpperCase[CHOOSE i \in 1..Len(LowerCase) : LowerCase[i] = c]
    ELSE c

\* capitalize(string), for a non-empty string
capitalize(string) == <<Upper(string[1])>> \o Slice(string, 1, Len(string))

CruftWindow == 100

\* (variant: the phrase is looked for in the whole description)
FindPhraseAnywhere(description, phrase) == Find(description, phrase, 0, Len(description))

\* _drop_initial_cruft: description.find(phrase, 0, 100)
FindPhrase(description, phrase) == Find(description, phrase, 0, CruftWindow)

\* _drop_initial_cruft's loop over its phrases, from phrase number k on
RECURSIVE DropCruftFrom(_, _)
DropCruftFrom(description, k) ==
    IF k > Len(Phrases) THEN description
    ELSE LET phrase == Phrases[k][1]
             replacement == Phrases[k][2]
             phrase_position == FindPhrase(description, phrase)
         IN  IF phrase_position # -1
             THEN replacement \o Slice(description, phrase_position + Len(phrase),
                                       Len(description))
             ELSE DropCruftFrom(description, k + 1)

\* ICOPenaltyScraper._drop_initial_cruft
drop_initial_cruft(description) == DropCruftFrom(description, 1)

\* ICOPenaltyScraper._abbreviate_description, for a description that is a
\* non-empty str
abbreviate_description(description) ==
    capitalize(
        replace(
            replace(
                replace(drop_initial_cruft(description), ICO_NAMES, THE_ICO),
                TPS_NAMES, TPS),
            PECR_NAMES, PECR))

SHORT_URL_LENGTH == 23
TWEET_LENGTH == 140

\* (variant: the cut keeps the whole budget and then adds the ellipsis)
make_tweet_cut_late(description, link) ==
    LET character_budget == TWEET_LENGTH - SHORT_URL_LENGTH - 1
        d1 == replace(description, ICO_NAMES, AT_ICONEWS)
        d2 == IF d1 # <<>> /\ d1[1] = "@" THEN <<".">> \o d1 ELSE d1
        short_desc == IF Len(d2) <= character_budget THEN d2
                      ELSE Slice(d2, 0, character_budget) \o <<ELLIPSIS>>
    IN  short_desc \o <<" ">> \o link

\* Tweeter.make_tweet(description, url)
make_tweet(description, link) ==
    LET character_budget == TWEET_LENGTH - SHORT_URL_LENGTH - 1
        d1 == replace(description, ICO_NAMES, AT_ICONEWS)
        d2 == IF d1 # <<>> /\ d1[1] = "@" THEN <<".">> \o d1 ELSE d1
        short_desc == IF Len(d2) <= character_budget THEN d2
                      ELSE Slice(d2, 0, character_budget - 1) \o <<ELLIPSIS>>
    IN  short_desc \o <<" ">> \o link

-----------------------------------------------------------------------------
(* Properties of the pipeline, checked under Spec.                         *)

Attempted == {attempts[i] : i \in 1..Len(attempts)}

\* C1: once the stored row of a url has tweet_sent = True it keeps it in
\* every later step: scrape_enforcements re-upserts a sent url as sent
\* whatever the fresh field values are, and no failed publish attempt
\* resets it.
C1_TweetSentNeverReverts ==
    [][(\A u \in Urls : AlreadySent(u) => AlreadySent(u)')]_vars

\* C1 witness: a url already sent has been re-upserted with another date
\* or title and is still sent.
C1_SentUrlReupserted ==
    /\ resent
    /\ run >= 2
    /\ \E u \in Urls : AlreadySent(u)

\* C2: no url is ever posted more than once, over all runs, also when the
\* upsert or commit after the successful post fails.
C2_AtMostOncePerUrl ==
    \A u \in Urls : posts[u] <= 1

\* C3: a run that reached the publisher ends with every row of the batch
\* (unsent, not stale; the date may be absent) attempted, with every failed
\* row still unsent and counted exactly once in failed_tweets.
C3_FailuresIsolated ==
    (pc \in {"done", "aborted"} /\ committed) =>
        /\ batch \subseteq Attempted
        /\ failed_tweets = Cardinality(failedAttempts)
        /\ \A u \in failedAttempts : ~store[u].tweet_sent

\* C4: every row get_untweeted yields is unsent in the table and dated no
\* more than 14 days before today; the publisher's phase changes no row but
\* the yielded one, so skipped stale rows stay as they are.
C4_YieldedUnsentAndRecent ==
    /\ [](pc = "tweet" =>
            /\ store[cur].present
            /\ ~store[cur].tweet_sent
            /\ store[cur].date # NULL
            /\ parse_date(store[cur].date) >= parse_date(today) - 14)
    /\ [][(pc \in {"select", "next", "tweet"}) =>
            (\A u \in Urls : (store'[u] # store[u]) => (u = cur /\ pc = "tweet"))]_vars

\* C4 witness: a row dated exactly 14 days before today has been yielded
\* while a stale unsent row of the same table was passed over.
C4_StaleSkippedRecentYielded ==
    /\ pc = "tweet"
    /\ parse_date(store[cur].date) = parse_date(today) - 14
    /\ \E u \in Unsent \ {cur} :
        /\ store[u].date # NULL
        /\ parse_date(store[u].date) < parse_date(today) - 14
        /\ IsoLeq(store[u].date, store[cur].date)

\* C5: a row is handed to the publisher only after every page of the
\* listing has been extracted and upserted and main's commit has run; a run
\* whose extraction failed has no publish attempt.
C5_PublishAfterListingCommitted ==
    /\ (pc = "tweet" \/ attempts # <<>>) =>
        /\ committed
        /\ idx = Len(pages) + 1
        /\ \A i \in 1..Len(pages) : store[pages[i]].present
    /\ (pc = "aborted" /\ ~committed) => attempts = <<>>

\* C5 witness: a run over a listing of two pages has posted.
C5_PostedAfterTwoPages ==
    /\ Len(pages) >= 2
    /\ attempts # <<>>
    /\ \E u \in Urls : posts[u] > 0 /\ u \in Attempted

\* C6: a run whose extraction completed ends with status 0 exactly when no
\* publish attempt failed, and the count tweet_untweeted returns is the
\* number of rows whose attempt failed.
C6_ExitStatusReflectsFailures ==
    (pc \in {"done", "aborted"} /\ committed) =>
        /\ (exit_status = 0) <=> (failedAttempts = {})
        /\ (exit_status # 0) <=> (failedAttempts # {})
        /\ (pc = "done") => (failed_tweets = Cardinality(failedAttempts))

\* C6 witness: a run that posted one row and failed on another has ended
\* with a non-zero status.
C6_OneFailedOneSent ==
    /\ pc = "done"
    /\ exit_status # 0
    /\ Len(attempts) = 2
    /\ Cardinality(failedAttempts) = 1

\* C8: the rows attempted in a run are in ascending order of date.
C8_AttemptsAscendByDate ==
    \A i \in 1..Len(attempts) : \A j \in 1..Len(attempts) :
        i < j => parse_date(store[attempts[i]].date) <= parse_date(store[attempts[j]].date)

\* C8 witness: two rows of different dates have been attempted, the first
\* one marked sent while the selection was still being iterated.
C8_TwoDatesAttempted ==
    /\ Len(attempts) = 2
    /\ store[attempts[1]].tweet_sent
    /\ store[attempts[1]].date # store[attempts[2]].date

-----------------------------------------------------------------------------
(* The pure functions, each applied to inputs drawn from bounded sets.     *)

\* the pipeline at rest
PipeIdle ==
    /\ PipeInit
    /\ today = <<2018, 1, 10>>

StringsOver(S, n) == UNION {[1..k -> S] : k \in 0..n}

\* ---- replace ----

MaxTextLen == 4
MaxNames == 2

ReplaceAlphabet == {"a", "b"}
NamePool == {<<"a">>, <<"b">>, <<"a", "a">>, <<"a", "b">>}
AliasPool == {<<>>, <<"a">>, <<"c">>, <<"b", "a">>}

ReplaceInit ==
    /\ PipeIdle
    /\ tpc = "replace_input"
    /\ text \in StringsOver(ReplaceAlphabet, MaxTextLen)
    /\ names \in StringsOver(NamePool, MaxNames)
    /\ alias \in AliasPool
    /\ url = <<>>
    /\ out = <<>>
    /\ out2 = <<>>

ApplyReplace ==
    /\ tpc = "replace_input"
    /\ out' = replace(text, names, alias)
    /\ tpc' = "replaced"
    /\ UNCHANGED <<text, names, alias, url, out2>>
    /\ UNCHANGED pipeVars

SpecReplace == ReplaceInit /\ [][ApplyReplace]_vars

\* ---- Tweeter.make_tweet ----

MaxPad == 120

PadChars ==
    <<"0", "1", "2", "3", "4", "5", "6", "7", "8", "9">>

\* n characters of filler: 1234567890123...
Pad(n) == [i \in 1..n |-> PadChars[(i % 10) + 1]]

TweetHeads ==
    {<<>>, <<"@">>, <<"x">>, ICO_NAME_1, <<"x">> \o ICO_NAME_7 \o <<" ">> \o ICO_NAME_7}

TweetUrls ==
    {<<"h", "t", "t", "p", ":", "/", "/", "x", "/", "1">>,
     <<"h", "t", "t", "p", "s", ":", "/", "/", "i", "c", "o", ".", "o", "r",
       "g", ".", "u", "k", "/", "a", "c", "t", "i", "o", "n", "-", "w", "e",
       "v", "e", "-", "t", "a", "k", "e", "n", "/", "e", "n", "f", "o", "r",
       "c", "e", "m", "e", "n", "t", "/", "a", "c", "m", "e", "/">>}

TweetInit ==
    /\ PipeIdle
    /\ tpc = "tweet_input"
    /\ \E h \in TweetHeads : \E n \in 0..MaxPad : text = h \o Pad(n)
    /\ names = ICO_NAMES
    /\ alias = AT_ICONEWS
    /\ url \in TweetUrls
    /\ out = <<>>
    /\ out2 = <<>>

ApplyMakeTweet ==
    /\ tpc = "tweet_input"
    /\ out' = make_tweet(text, url)
    /\ tpc' = "tweeted"
    /\ UNCHANGED <<text, names, alias, url, out2>>
    /\ UNCHANGED pipeVars

SpecTweet == TweetInit /\ [][ApplyMakeTweet]_vars

\* ---- ICOPenaltyScraper._abbreviate_description ----

MaxSegments == 3

Segments ==
    <<<<"A", "c", "m", "e", " ">>,
      HAS_BEEN_FINED,
      HAS_BEEN_PROSECUTED,
      [i \in 1..86 |-> "z"],
      <<"t">> \o Slice(TPS_NAME_2, 1, Len(TPS_NAME_2)),
      TPS_NAME_2>>

RECURSIVE Flatten(_)
Flatten(ss) == IF ss = <<>> THEN <<>> ELSE Segments[Head(ss)] \o Flatten(Tail(ss))

SummaryInit ==
    /\ PipeIdle
    /\ tpc = "summary_input"
    /\ \E ss \in StringsOver(1..Len(Segments), MaxSegments) :
        /\ ss # <<>>
        /\ text = Flatten(ss)
    /\ names = <<>>
    /\ alias = <<>>
    /\ url = <<>>
    /\ out = <<>>
    /\ out2 = <<>>

Summarize ==
    /\ tpc = "summary_input"
    /\ out' = abbreviate_description(text)
    /\ tpc' = "summarized"
    /\ UNCHANGED <<text, names, alias, url, out2>>
    /\ UNCHANGED pipeVars

SummarizeAgain ==
    /\ tpc = "summarized"
    /\ out2' = abbreviate_description(out)
    /\ tpc' = "summarized_twice"
    /\ UNCHANGED <<text, names, alias, url, out>>
    /\ UNCHANGED pipeVars

SummaryNext ==
    \/ Summarize
    \/ SummarizeAgain

SpecSummary == SummaryInit /\ [][SummaryNext]_vars

-----------------------------------------------------------------------------
(* Properties of the pure functions.                                       *)

\* the description make_tweet cuts: alias substituted, '.' put before '@'
C7_Described ==
    LET d1 == replace(text, ICO_NAMES, AT_ICONEWS)
    IN  IF d1 # <<>> /\ d1[1] = "@" THEN <<".">> \o d1 ELSE d1

\* C7: make_tweet returns body, a space and the url in full; body has at
\* most 140 - 23 - 1 = 116 characters; it is the substituted description
\* when that has at most 116 characters, and otherwise its first 115
\* characters followed by the ellipsis character.  Checked under SpecTweet.
C7_TweetShape ==
    (tpc = "tweeted") =>
        LET n == Len(out) - Len(url) - 1
            body == SubSeq(out, 1, n)
        IN  /\ n >= 0
            /\ SubSeq(out, n + 2, Len(out)) = url
            /\ out[n + 1] = " "
            /\ n <= 116
            /\ (Len(C7_Described) <= 116) => (body = C7_Described)
            /\ (Len(C7_Described) > 116) =>
                   (body = SubSeq(C7_Described, 1, 115) \o <<ELLIPSIS>>)

\* C7 witness: a description that starts with an ICO name was substituted,
\* prefixed and cut, and a link longer than 23 characters appended.
C7_CutAfterSubstitution ==
    /\ tpc = "tweeted"
    /\ Len(C7_Described) > 116
    /\ C7_Described[1] = "."
    /\ out[116] = ELLIPSIS
    /\ Len(url) > 23

\* the positions where name occurs in s
Occurrences(s, name) == {i \in 0..Len(s) : MatchAt(s, name, i)}

\* S holds the occurrences of name in s taken from left to right without
\* overlap
IsLeftmostDisjoint(S, s, name) ==
    /\ S \subseteq Occurrences(s, name)
    /\ \A i \in S : \A j \in S : (i < j) => (i + Len(name) <= j)
    /\ \A i \in Occurrences(s, name) \ S : \E j \in S : j < i /\ i < j + Len(name)

\* s with the occurrences of name at the positions of S replaced by a
RECURSIVE Spliced(_, _, _, _)
Spliced(s, S, name, a) ==
    IF S = {} THEN s
    ELSE LET m == MaxOf(S)
         IN  Spliced(Slice(s, 0, m), S \ {m}, name, a) \o a
                 \o Slice(s, m + Len(name), Len(s))

\* the indices of the variants that occur in text
C9_Occurring == {k \in 1..Len(names) : Occurrences(text, names[k]) # {}}

\* the indices of the variants that occur in text and are not the alias
C9_Effective == {k \in C9_Occurring : names[k] # alias}

\* C9 as stated: only the first occurrence of the first variant that occurs
\* is replaced by the alias; without such a variant the text is returned.
\* Checked under SpecReplace.
C9_OnlyFirstOccurrence ==
    (tpc = "replaced") =>
        IF C9_Occurring = {} THEN out = text
        ELSE LET name == names[MinOf(C9_Occurring)]
             IN  out = Spliced(text, {MinOf(Occurrences(text, name))}, name, alias)

\* C9 amended: the first variant that occurs and differs from the alias has
\* every occurrence, taken from left to right without overlap, replaced by
\* the alias, and nothing else changes; without such a variant the text is
\* returned.  Checked under SpecReplace.
C9_EveryOccurrenceOfOneVariant ==
    (tpc = "replaced") =>
        IF C9_Effective = {} THEN out = text
        ELSE LET name == names[MinOf(C9_Effective)]
             IN  \E S \in SUBSET Occurrences(text, name) :
                    /\ IsLeftmostDisjoint(S, text, name)
                    /\ out = Spliced(text, S, name, alias)

\* C9 witness: the variant replaced is not the first of the list, occurs
\* twice, and another variant still occurs in the result.
C9_TwoOccurrencesReplaced ==
    /\ tpc = "replaced"
    /\ C9_Effective # {}
    /\ MinOf(C9_Effective) > 1
    /\ Len(out) = Len(text) + 2 * (Len(alias) - Len(names[MinOf(C9_Effective)]))
    /\ Len(alias) # Len(names[MinOf(C9_Effective)])
    /\ \E k \in 1..Len(names) : k # MinOf(C9_Effective) /\ Contains(out, names[k])

AliasNames == ICO_NAMES \o TPS_NAMES \o PECR_NAMES

HasAliasName(s) == \E k \in 1..Len(AliasNames) : Contains(s, AliasNames[k])

\* a phrase of _drop_initial_cruft lies within the first 100 characters
HasPhraseInWindow(s) ==
    \E k \in 1..Len(Phrases) : \E i \in 0..(100 - Len(Phrases[k][1])) :
        MatchAt(s, Phrases[k][1], i)

\* C10 as stated: on a non-empty description without alias names,
\* summarizing twice gives what summarizing once gives.  Checked under
\* SpecSummary.
C10_IdempotentWithoutAliasNames ==
    (tpc = "summarized_twice" /\ ~HasAliasName(text)) => (out2 = out)

\* C10 amended: on a non-empty description without alias names whose
\* summary holds no alias name and no trigger phrase lying within its first
\* 100 characters, summarizing twice gives what summarizing once gives.
\* Checked under SpecSummary.
C10_IdempotentOnCleanSummary ==
    (/\ tpc = "summarized_twice"
     /\ ~HasAliasName(text)
     /\ ~HasAliasName(out)
     /\ ~HasPhraseInWindow(out)) => (out2 = out)

\* C10 witness: a trigger phrase was dropped, another one lies in the
\* summary beyond the first 100 characters, and the summary is clean.
C10_CruftDroppedSummaryClean ==
    /\ tpc = "summarized_twice"
    /\ ~HasAliasName(text)
    /\ ~HasAliasName(out)
    /\ ~HasPhraseInWindow(out)
    /\ Len(out) < Len(text)
    /\ \E k \in 1..Len(Phrases) : Contains(out, Phrases[k][1])

====
